---- MODULE Spec2Model ----
(***************************************************************************)
(* Model of database/init.go: the init-file loader (Manager.loadInitFile), *)
(* the SQL statement splitter (parseSQL) and the display truncation helper  *)
(* (truncateStatement).                                                     *)
(*                                                                         *)
(* Text is a sequence of runes, each rune a one-character string.  The     *)
(* loop index i is 0-based as in the Go code, so runes[i] of the source is  *)
(* runes[i + 1] here.  One action is one iteration of a loop of the code.   *)
(* The calls to m.logger write to the log only and are left out; the        *)
(* outcome of mainDB.ExecContext (the context's timeout included) is        *)
(* chosen freely between success and failure.                               *)
(***************************************************************************)
EXTENDS Integers, Sequences, FiniteSets, TLC

VARIABLES
    content,         \* the text of the init file, as read by os.ReadFile
    i,               \* parseSQL: loop index into runes
    inString,        \* parseSQL: inside a single-quoted string literal
    inBlockComment,  \* parseSQL: inside /* ... */
    inLineComment,   \* parseSQL: inside -- ... newline
    currentStmt,     \* parseSQL: the strings.Builder of the statement in progress
    statements,      \* parseSQL: the statements emitted so far
    peek,            \* parseSQL: highest index of runes read by the last iteration
    parseErr,        \* parseSQL: the error it returns
    pc,              \* loadInitFile: "read", "scan", "parsed", "exec", "done"
    stmtIdx,         \* loadInitFile: index of the range loop over statements
    execLog,         \* the calls made to mainDB.ExecContext, in order, with outcome
    err,             \* loadInitFile: the error it returns
    tsStmt,          \* truncateStatement: the argument stmt
    tsMaxLen,        \* truncateStatement: the argument maxLen
    tsResult,        \* truncateStatement: the string it returns
    page,            \* WriteJSON: the argument page
    limit,           \* WriteJSON: the argument limit
    totalRows,       \* WriteJSON: the argument totalRows
    totalPages,      \* WriteJSON: the local totalPages
    links            \* WriteJSON: the map returned by generateHATEOASLinks

scanVars == <<i, inString, inBlockComment, inLineComment, currentStmt, statements, peek>>
loadVars == <<content, parseErr, stmtIdx, execLog, err>>
truncVars == <<tsStmt, tsMaxLen, tsResult>>
jsonVars == <<page, limit, totalRows, totalPages, links>>
vars == <<content, i, inString, inBlockComment, inLineComment, currentStmt,
          statements, peek, parseErr, pc, stmtIdx, execLog, err,
          tsStmt, tsMaxLen, tsResult, page, limit, totalRows, totalPages, links>>

(***************************************************************************)
(* Bounds of the model and the inputs it enumerates.                        *)
(***************************************************************************)
\* the longest text that is enumerated in full
MaxLen == 4

Chars == {"'", ";", "-", "/", "*", "\n", " ", "a"}

Texts == UNION {[1..k -> Chars] : k \in 0..MaxLen}

\* unicode.IsSpace, as used by strings.TrimSpace and strings.Fields
IsSpace(c) == c \in {" ", "\n", "\t", "\r", "\f"}

(***************************************************************************)
(* Inputs taken from the table of TestParseSQL.                             *)
(***************************************************************************)
TestSemicolons ==
    <<"I","N","S","E","R","T"," ","I","N","T","O"," ","t"," ","V","A","L",
      "U","E","S"," ","(","'","a",";","b",";","c","'",")",";"," ","S","E",
      "L","E","C","T"," ","1",";">>

TestEscapedQuotes ==
    <<"S","E","L","E","C","T"," ","'","d","o","n","'","'","t"," ","s","t",
      "o","p",";"," ","k","e","e","p"," ","g","o","i","n","g","'",";">>

TestCommentLike ==
    <<"S","E","L","E","C","T"," ","'","-","-"," ","n","o","t"," ","a"," ",
      "c","o","m","m","e","n","t","'",";"," ","S","E","L","E","C","T"," ",
      "'","/","*"," ","a","l","s","o"," ","n","o","t"," ","*","/","'",";">>

TestCreateSecret ==
    <<"C","R","E","A","T","E"," ","S","E","C","R","E","T"," ","m","y","_",
      "s","e","c","r","e","t"," ","(","\n"," "," "," "," ","T","Y","P","E",
      " ","S","3",",","\n"," "," "," "," ","K","E","Y","_","I","D"," ","'",
      "m","y","_","k","e","y","_","i","d","'",",","\n"," "," "," "," ","S",
      "E","C","R","E","T"," ","'","m","y","_","s","e","c","r","e","t","_",
      "k","e","y","'",",","\n"," "," "," "," ","R","E","G","I","O","N"," ",
      "'","u","s","-","e","a","s","t","-","1","'","\n",")",";">>

TestMixed ==
    <<"-","-"," ","C","o","n","f","i","g","u","r","e"," ","e","x","t","e",
      "n","s","i","o","n","s","\n","S","E","T"," ","a","u","t","o","i","n",
      "s","t","a","l","l","_","k","n","o","w","n","_","e","x","t","e","n",
      "s","i","o","n","s"," ","="," ","1",";","\n","/","*"," ","L","o","a",
      "d"," ","t","h","e"," ","h","t","t","p","f","s"," ","e","x","t","e",
      "n","s","i","o","n","\n"," "," "," ","f","o","r"," ","r","e","m","o",
      "t","e"," ","f","i","l","e"," ","a","c","c","e","s","s"," ","*","/",
      "\n","L","O","A","D"," ","h","t","t","p","f","s",";","\n","-","-"," ",
      "D","o","n","e">>

TestBlockMiddle ==
    <<"S","E","L","E","C","T"," ","/","*"," ","c","o","m","m","e","n","t",
      " ","*","/"," ","1",";">>

TestExtensionLoading ==
    <<"S","E","T"," ","a","u","t","o","i","n","s","t","a","l","l","_","k",
      "n","o","w","n","_","e","x","t","e","n","s","i","o","n","s"," ","=",
      " ","1",";","\n","S","E","T"," ","a","u","t","o","l","o","a","d","_",
      "k","n","o","w","n","_","e","x","t","e","n","s","i","o","n","s"," ",
      "="," ","1",";","\n","L","O","A","D"," ","h","t","t","p","f","s",";">>

SampleTexts ==
    {TestSemicolons, TestEscapedQuotes, TestCommentLike, TestCreateSecret,
     TestMixed, TestBlockMiddle, TestExtensionLoading}

\* texts in which a block comment stands between two runes that form a comment
\* opener once it is taken out
AdjacencyTexts ==
    { <<"-", "/", "*", "*", "/", "-">>,
      <<"/", "/", "*", "*", "/", "*">> }

Inputs == Texts \cup SampleTexts \cup AdjacencyTexts

(***************************************************************************)
(* strings.TrimSpace                                                        *)
(***************************************************************************)
RECURSIVE TrimLeft(_)
TrimLeft(s) ==
    IF s # <<>> /\ IsSpace(Head(s)) THEN TrimLeft(Tail(s)) ELSE s

RECURSIVE TrimRight(_)
TrimRight(s) ==
    IF s # <<>> /\ IsSpace(s[Len(s)]) THEN TrimRight(SubSeq(s, 1, Len(s) - 1)) ELSE s

TrimSpace(s) == TrimRight(TrimLeft(s))

(***************************************************************************)
(* parseSQL.  The state of one call is a record s; each operator below is   *)
(* one branch of the loop body and yields the state at the start of the     *)
(* next iteration (the loop's i++ included).                                *)
(***************************************************************************)
Start ==
    [i |-> 0, inString |-> FALSE, inBlockComment |-> FALSE, inLineComment |-> FALSE,
     currentStmt |-> <<>>, statements |-> <<>>, peek |-> -1]

\* Lookahead without the bound test i+1 < n
LookaheadUnchecked(runes, s, ch) ==
    [hit |-> s.i + 1 < Len(runes) /\ runes[s.i + 2] = ch, read |-> s.i + 1]

\* i+1 < n && runes[i+1] == ch : read is the highest index of runes it reads
Lookahead(runes, s, ch) ==
    IF s.i + 1 < Len(runes)
    THEN [hit |-> runes[s.i + 2] = ch, read |-> s.i + 1]
    ELSE [hit |-> FALSE, read |-> s.i]

\* LineCommentStep in which a quote opens a string literal
LineCommentStepQuotes(runes, s) ==
    LET c == runes[s.i + 1] IN
    IF c = "\n"
    THEN [s EXCEPT !.inLineComment = FALSE,
                   !.currentStmt = Append(@, "\n"),
                   !.i = @ + 1, !.peek = s.i]
    ELSE IF c = "'"
    THEN [s EXCEPT !.inString = TRUE, !.i = @ + 1, !.peek = s.i]
    ELSE [s EXCEPT !.i = @ + 1, !.peek = s.i]

\* LineCommentStep that discards the terminating newline with the comment
LineCommentStepDropsNewline(runes, s) ==
    LET c == runes[s.i + 1] IN
    IF c = "\n"
    THEN [s EXCEPT !.inLineComment = FALSE, !.i = @ + 1, !.peek = s.i]
    ELSE [s EXCEPT !.i = @ + 1, !.peek = s.i]

LineCommentStep(runes, s) ==
    LET c == runes[s.i + 1] IN
    IF c = "\n"
    THEN [s EXCEPT !.inLineComment = FALSE,
                   !.currentStmt = Append(@, "\n"),
                   !.i = @ + 1, !.peek = s.i]
    ELSE [s EXCEPT !.i = @ + 1, !.peek = s.i]

\* BlockCommentStep that puts a space in place of the closed comment
BlockCommentStepLeavesSpace(runes, s) ==
    LET c  == runes[s.i + 1]
        la == Lookahead(runes, s, "/")
    IN  IF c = "*" /\ la.hit
        THEN [s EXCEPT !.inBlockComment = FALSE, !.currentStmt = Append(@, " "),
                       !.i = @ + 2, !.peek = la.read]
        ELSE [s EXCEPT !.i = @ + 1, !.peek = IF c = "*" THEN la.read ELSE s.i]

BlockCommentStep(runes, s) ==
    LET c  == runes[s.i + 1]
        la == Lookahead(runes, s, "/")
    IN  IF c = "*" /\ la.hit
        THEN [s EXCEPT !.inBlockComment = FALSE, !.i = @ + 2, !.peek = la.read]
        ELSE [s EXCEPT !.i = @ + 1, !.peek = IF c = "*" THEN la.read ELSE s.i]

\* StringStep with the terminator honoured inside a string literal
StringStepSplits(runes, s) ==
    LET c  == runes[s.i + 1]
        la == Lookahead(runes, s, "'")
        stmt == TrimSpace(s.currentStmt)
    IN  IF c = ";"
        THEN [s EXCEPT !.statements = IF stmt # <<>> THEN Append(@, stmt) ELSE @,
                       !.currentStmt = <<>>, !.i = @ + 1, !.peek = s.i]
        ELSE IF c = "'"
        THEN IF la.hit
             THEN [s EXCEPT !.currentStmt = @ \o <<c, runes[s.i + 2]>>,
                            !.i = @ + 2, !.peek = la.read]
             ELSE [s EXCEPT !.currentStmt = Append(@, c),
                            !.inString = FALSE,
                            !.i = @ + 1, !.peek = la.read]
        ELSE [s EXCEPT !.currentStmt = Append(@, c), !.i = @ + 1, !.peek = s.i]

\* StringStep without the check for an escaped quote: every quote closes
StringStepNoEscape(runes, s) ==
    LET c == runes[s.i + 1] IN
    IF c = "'"
    THEN [s EXCEPT !.currentStmt = Append(@, c), !.inString = FALSE,
                   !.i = @ + 1, !.peek = s.i]
    ELSE [s EXCEPT !.currentStmt = Append(@, c), !.i = @ + 1, !.peek = s.i]

\* StringStep with the comment openers checked before the string contents
StringStepComments(runes, s) ==
    LET c    == runes[s.i + 1]
        la   == Lookahead(runes, s, "'")
        dash == Lookahead(runes, s, "-")
        star == Lookahead(runes, s, "*")
    IN  IF c = "-" /\ dash.hit
        THEN [s EXCEPT !.inString = FALSE, !.inLineComment = TRUE,
                       !.i = @ + 2, !.peek = dash.read]
        ELSE IF c = "/" /\ star.hit
        THEN [s EXCEPT !.inString = FALSE, !.inBlockComment = TRUE,
                       !.i = @ + 2, !.peek = star.read]
        ELSE IF c = "'"
        THEN IF la.hit
             THEN [s EXCEPT !.currentStmt = @ \o <<c, runes[s.i + 2]>>,
                            !.i = @ + 2, !.peek = la.read]
             ELSE [s EXCEPT !.currentStmt = Append(@, c),
                            !.inString = FALSE,
                            !.i = @ + 1, !.peek = la.read]
        ELSE [s EXCEPT !.currentStmt = Append(@, c), !.i = @ + 1, !.peek = s.i]

StringStep(runes, s) ==
    LET c  == runes[s.i + 1]
        la == Lookahead(runes, s, "'")
    IN  IF c = "'"
        THEN IF la.hit
             THEN [s EXCEPT !.currentStmt = @ \o <<c, runes[s.i + 2]>>,
                            !.i = @ + 2, !.peek = la.read]
             ELSE [s EXCEPT !.currentStmt = Append(@, c),
                            !.inString = FALSE,
                            !.i = @ + 1, !.peek = la.read]
        ELSE [s EXCEPT !.currentStmt = Append(@, c), !.i = @ + 1, !.peek = s.i]

\* TerminatorStep without the test stmt != ""
TerminatorStepKeepsEmpty(s) ==
    [s EXCEPT !.statements = Append(@, TrimSpace(s.currentStmt)),
              !.currentStmt = <<>>,
              !.i = @ + 1, !.peek = s.i]

\* TerminatorStep without strings.TrimSpace
TerminatorStepUntrimmed(s) ==
    [s EXCEPT !.statements = IF TrimSpace(s.currentStmt) # <<>>
                             THEN Append(@, s.currentStmt) ELSE @,
              !.currentStmt = <<>>,
              !.i = @ + 1, !.peek = s.i]

\* TerminatorStep without currentStmt.Reset()
TerminatorStepNoReset(s) ==
    LET stmt == TrimSpace(s.currentStmt) IN
    [s EXCEPT !.statements = IF stmt # <<>> THEN Append(@, stmt) ELSE @,
              !.i = @ + 1, !.peek = s.i]

\* TerminatorStep with the test stmt != "" inverted
TerminatorStepInverted(s) ==
    LET stmt == TrimSpace(s.currentStmt) IN
    [s EXCEPT !.statements = IF stmt = <<>> THEN Append(@, stmt) ELSE @,
              !.currentStmt = <<>>,
              !.i = @ + 1, !.peek = s.i]

\* the statement terminator: emit the trimmed builder if non-empty, reset it
TerminatorStep(s) ==
    LET stmt == TrimSpace(s.currentStmt) IN
    [s EXCEPT !.statements = IF stmt # <<>> THEN Append(@, stmt) ELSE @,
              !.currentStmt = <<>>,
              !.i = @ + 1, !.peek = s.i]

\* NormalStep that opens a line comment on a single '-', without lookahead
NormalStepSingleDash(runes, s) ==
    LET c     == runes[s.i + 1]
        star  == Lookahead(runes, s, "*")
    IN  IF c = "'"
        THEN [s EXCEPT !.inString = TRUE, !.currentStmt = Append(@, c),
                       !.i = @ + 1, !.peek = s.i]
        ELSE IF c = "-"
        THEN [s EXCEPT !.inLineComment = TRUE, !.i = @ + 1, !.peek = s.i]
        ELSE IF c = "/" /\ star.hit
        THEN [s EXCEPT !.inBlockComment = TRUE, !.i = @ + 2, !.peek = star.read]
        ELSE IF c = ";"
        THEN TerminatorStep(s)
        ELSE [s EXCEPT !.currentStmt = Append(@, c), !.i = @ + 1,
                       !.peek = IF c = "/" THEN star.read ELSE s.i]

NormalStep(runes, s) ==
    LET c     == runes[s.i + 1]
        dash  == Lookahead(runes, s, "-")
        star  == Lookahead(runes, s, "*")
    IN  IF c = "'"
        THEN [s EXCEPT !.inString = TRUE, !.currentStmt = Append(@, c),
                       !.i = @ + 1, !.peek = s.i]
        ELSE IF c = "-" /\ dash.hit
        THEN [s EXCEPT !.inLineComment = TRUE, !.i = @ + 2, !.peek = dash.read]
        ELSE IF c = "/" /\ star.hit
        THEN [s EXCEPT !.inBlockComment = TRUE, !.i = @ + 2, !.peek = star.read]
        ELSE IF c = ";"
        THEN TerminatorStep(s)
        ELSE [s EXCEPT !.currentStmt = Append(@, c), !.i = @ + 1,
                       !.peek = IF c = "-" THEN dash.read
                                ELSE IF c = "/" THEN star.read ELSE s.i]

\* Remaining that flushes only when the scan ended in Normal mode
RemainingOnlyNormal(s) ==
    LET remaining == TrimSpace(s.currentStmt) IN
    [s EXCEPT !.statements =
        IF remaining # <<>> /\ ~(s.inString \/ s.inLineComment \/ s.inBlockComment)
        THEN Append(@, remaining) ELSE @]

\* Remaining without strings.TrimSpace
RemainingUntrimmed(s) ==
    [s EXCEPT !.statements = IF s.currentStmt # <<>> THEN Append(@, s.currentStmt) ELSE @]

\* the remaining content after the loop (statement without trailing semicolon)
Remaining(s) ==
    LET remaining == TrimSpace(s.currentStmt) IN
    [s EXCEPT !.statements = IF remaining # <<>> THEN Append(@, remaining) ELSE @]

\* one iteration of the loop body
ScanRune(runes, s) ==
    IF s.inLineComment THEN LineCommentStep(runes, s)
    ELSE IF s.inBlockComment THEN BlockCommentStep(runes, s)
    ELSE IF s.inString THEN StringStep(runes, s)
    ELSE NormalStep(runes, s)

\* the loop test and, if it holds, one iteration
LoopStep(runes, s) == IF s.i < Len(runes) THEN ScanRune(runes, s) ELSE s

\* four and sixteen turns of the loop (they keep the recursion of ScanFrom shallow)
LoopStep4(runes, s) ==
    LoopStep(runes, LoopStep(runes, LoopStep(runes, LoopStep(runes, s))))

LoopStep16(runes, s) ==
    LoopStep4(runes, LoopStep4(runes, LoopStep4(runes, LoopStep4(runes, s))))

\* the loop run to its end
RECURSIVE ScanFrom(_, _)
ScanFrom(runes, s) ==
    IF s.i < Len(runes) THEN ScanFrom(runes, LoopStep16(runes, s)) ELSE s

\* parseSQL as a function of its argument: the statements it returns
parseSQL(text) == Remaining(ScanFrom(text, Start)).statements

(***************************************************************************)
(* truncateStatement.  A Go string is a sequence of bytes; a byte is       *)
(* modelled as <<r, k>>, the k-th byte of the UTF-8 encoding of rune r.     *)
(***************************************************************************)
Utf8Len(r) == IF r \in {"é", "ü"} THEN 2 ELSE IF r \in {"€"} THEN 3 ELSE 1

\* the bytes of a string of runes (encoded half by half)
RECURSIVE Utf8(_)
Utf8(s) ==
    IF s = <<>> THEN <<>>
    ELSE IF Len(s) = 1 THEN [k \in 1..Utf8Len(s[1]) |-> <<s[1], k>>]
    ELSE LET h == Len(s) \div 2 IN
         Utf8(SubSeq(s, 1, h)) \o Utf8(SubSeq(s, h + 1, Len(s)))

RECURSIVE FieldEnd(_, _)
FieldEnd(s, k) ==
    IF k < Len(s) /\ ~IsSpace(s[k + 1]) THEN FieldEnd(s, k + 1) ELSE k

\* strings.Fields: the maximal runs of non-space runes
RECURSIVE Fields(_)
Fields(s) ==
    LET t == TrimLeft(s) IN
    IF t = <<>> THEN <<>>
    ELSE LET e == FieldEnd(t, 1) IN
         <<SubSeq(t, 1, e)>> \o Fields(SubSeq(t, e + 1, Len(t)))

\* strings.Join
RECURSIVE Join(_, _)
Join(elems, sep) ==
    IF elems = <<>> THEN <<>>
    ELSE IF Len(elems) = 1 THEN elems[1]
    ELSE elems[1] \o sep \o Join(Tail(elems), sep)

truncateStatement(stmt, maxLen) ==
    LET bytes == Utf8(Join(Fields(stmt), <<" ">>)) IN
    IF Len(bytes) <= maxLen THEN bytes
    ELSE SubSeq(bytes, 1, maxLen - 3) \o Utf8(<<".", ".", ".">>)

(***************************************************************************)
(* loadInitFile                                                             *)
(***************************************************************************)
StmtErrLen == 50

NoErr == [kind |-> "nil", index |-> 0, text |-> <<>>, cause |-> "nil"]

ReadErr == [kind |-> "read", index |-> 0, text |-> <<>>, cause |-> "readErr"]

ParseErr == [kind |-> "parse", index |-> 0, text |-> <<>>, cause |-> "parseErr"]

\* ExecErr reporting the 0-based loop index
ExecErrZeroBased(idx, stmt, cause) ==
    [kind |-> "exec", index |-> idx,
     text |-> truncateStatement(stmt, StmtErrLen), cause |-> cause]

\* fmt.Errorf("failed to execute init statement %d (%s): %w", i+1, ...)
ExecErr(idx, stmt, cause) ==
    [kind |-> "exec", index |-> idx + 1,
     text |-> truncateStatement(stmt, StmtErrLen), cause |-> cause]

Cur ==
    [i |-> i, inString |-> inString, inBlockComment |-> inBlockComment,
     inLineComment |-> inLineComment, currentStmt |-> currentStmt,
     statements |-> statements, peek |-> peek]

Commit(s) ==
    /\ i' = s.i
    /\ inString' = s.inString
    /\ inBlockComment' = s.inBlockComment
    /\ inLineComment' = s.inLineComment
    /\ currentStmt' = s.currentStmt
    /\ statements' = s.statements
    /\ peek' = s.peek

Init ==
    /\ content = <<>>
    /\ i = Start.i
    /\ inString = Start.inString
    /\ inBlockComment = Start.inBlockComment
    /\ inLineComment = Start.inLineComment
    /\ currentStmt = Start.currentStmt
    /\ statements = Start.statements
    /\ peek = Start.peek
    /\ parseErr = "unset"
    /\ pc = "read"
    /\ stmtIdx = 0
    /\ execLog = <<>>
    /\ err = NoErr
    /\ tsStmt = <<>>
    /\ tsMaxLen = 0
    /\ tsResult = <<>>
    /\ page = 0
    /\ limit = 0
    /\ totalRows = 0
    /\ totalPages = 0
    /\ links = <<>>

\* os.ReadFile succeeds; parseSQL is entered with the text of the file
ReadFile ==
    /\ pc = "read"
    /\ \E text \in Inputs : content' = text
    /\ pc' = "scan"
    /\ UNCHANGED <<scanVars, parseErr, stmtIdx, execLog, err>>
    /\ UNCHANGED <<truncVars, jsonVars>>

\* os.ReadFile fails
ReadFileFail ==
    /\ pc = "read"
    /\ err' = ReadErr
    /\ pc' = "done"
    /\ UNCHANGED <<content, scanVars, parseErr, stmtIdx, execLog>>
    /\ UNCHANGED <<truncVars, jsonVars>>

ScanLineComment ==
    /\ pc = "scan"
    /\ i < Len(content)
    /\ inLineComment
    /\ Commit(LineCommentStep(content, Cur))
    /\ UNCHANGED <<content, parseErr, pc, stmtIdx, execLog, err>>
    /\ UNCHANGED <<truncVars, jsonVars>>

ScanBlockComment ==
    /\ pc = "scan"
    /\ i < Len(content)
    /\ ~inLineComment /\ inBlockComment
    /\ Commit(BlockCommentStep(content, Cur))
    /\ UNCHANGED <<content, parseErr, pc, stmtIdx, execLog, err>>
    /\ UNCHANGED <<truncVars, jsonVars>>

ScanString ==
    /\ pc = "scan"
    /\ i < Len(content)
    /\ ~inLineComment /\ ~inBlockComment /\ inString
    /\ Commit(StringStep(content, Cur))
    /\ UNCHANGED <<content, parseErr, pc, stmtIdx, execLog, err>>
    /\ UNCHANGED <<truncVars, jsonVars>>

ScanNormal ==
    /\ pc = "scan"
    /\ i < Len(content)
    /\ ~inLineComment /\ ~inBlockComment /\ ~inString
    /\ Commit(NormalStep(content, Cur))
    /\ UNCHANGED <<content, parseErr, pc, stmtIdx, execLog, err>>
    /\ UNCHANGED <<truncVars, jsonVars>>

\* the loop of parseSQL is over: flush the remaining content and return
ScanReturn ==
    /\ pc = "scan"
    /\ ~(i < Len(content))
    /\ Commit(Remaining(Cur))
    /\ parseErr' = "nil"
    /\ pc' = "parsed"
    /\ UNCHANGED <<content, stmtIdx, execLog, err>>
    /\ UNCHANGED <<truncVars, jsonVars>>

\* parseSQL has returned: the error check, the empty check and the loop entry
AfterParse ==
    /\ pc = "parsed"
    /\ IF parseErr # "nil"
       THEN err' = ParseErr /\ pc' = "done"
       ELSE IF Len(statements) = 0
       THEN err' = NoErr /\ pc' = "done"
       ELSE err' = err /\ pc' = "exec"
    /\ stmtIdx' = 0
    /\ UNCHANGED <<content, scanVars, parseErr, execLog>>
    /\ UNCHANGED <<truncVars, jsonVars>>

\* m.mainDB.ExecContext(ctx, stmt) succeeds
ExecOk ==
    /\ pc = "exec"
    /\ stmtIdx < Len(statements)
    /\ execLog' = Append(execLog, [stmt |-> statements[stmtIdx + 1], ok |-> TRUE])
    /\ stmtIdx' = stmtIdx + 1
    /\ UNCHANGED <<content, scanVars, parseErr, pc, err>>
    /\ UNCHANGED <<truncVars, jsonVars>>

\* ExecFail that logs the failure and goes on with the next statement
ExecFailContinues ==
    /\ pc = "exec"
    /\ stmtIdx < Len(statements)
    /\ execLog' = Append(execLog, [stmt |-> statements[stmtIdx + 1], ok |-> FALSE])
    /\ err' = ExecErr(stmtIdx, statements[stmtIdx + 1], "execErr")
    /\ stmtIdx' = stmtIdx + 1
    /\ UNCHANGED <<content, scanVars, parseErr, pc>>
    /\ UNCHANGED <<truncVars, jsonVars>>

\* m.mainDB.ExecContext(ctx, stmt) fails: return the wrapped error
ExecFail ==
    /\ pc = "exec"
    /\ stmtIdx < Len(statements)
    /\ execLog' = Append(execLog, [stmt |-> statements[stmtIdx + 1], ok |-> FALSE])
    /\ err' = ExecErr(stmtIdx, statements[stmtIdx + 1], "execErr")
    /\ pc' = "done"
    /\ UNCHANGED <<content, scanVars, parseErr, stmtIdx>>
    /\ UNCHANGED <<truncVars, jsonVars>>

\* the range loop is over: every statement was executed
ExecDone ==
    /\ pc = "exec"
    /\ ~(stmtIdx < Len(statements))
    /\ err' = NoErr
    /\ pc' = "done"
    /\ UNCHANGED <<content, scanVars, parseErr, stmtIdx, execLog>>
    /\ UNCHANGED <<truncVars, jsonVars>>

ScanNext ==
    \/ ScanLineComment
    \/ ScanBlockComment
    \/ ScanString
    \/ ScanNormal
    \/ ScanReturn

Next ==
    \/ ReadFile
    \/ ReadFileFail
    \/ ScanLineComment
    \/ ScanBlockComment
    \/ ScanString
    \/ ScanNormal
    \/ ScanReturn
    \/ AfterParse
    \/ ExecOk
    \/ ExecFail
    \/ ExecDone

Spec == Init /\ [][Next]_vars

TypeOK ==
    /\ pc \in {"read", "scan", "parsed", "exec", "done",
              "truncate", "truncated", "json", "written"}
    /\ i \in 0..Len(content)
    /\ inString \in BOOLEAN /\ inBlockComment \in BOOLEAN /\ inLineComment \in BOOLEAN
    /\ stmtIdx \in 0..Len(statements)

(***************************************************************************)
(* parseSQL called on its own, as TestParseSQL calls it.  The loop of a     *)
(* for statement always runs its next iteration, hence the weak fairness.   *)
(***************************************************************************)
ParseInit ==
    /\ content \in Inputs
    /\ i = Start.i
    /\ inString = Start.inString
    /\ inBlockComment = Start.inBlockComment
    /\ inLineComment = Start.inLineComment
    /\ currentStmt = Start.currentStmt
    /\ statements = Start.statements
    /\ peek = Start.peek
    /\ parseErr = "unset"
    /\ pc = "scan"
    /\ stmtIdx = 0
    /\ execLog = <<>>
    /\ err = NoErr
    /\ tsStmt = <<>>
    /\ tsMaxLen = 0
    /\ tsResult = <<>>
    /\ page = 0
    /\ limit = 0
    /\ totalRows = 0
    /\ totalPages = 0
    /\ links = <<>>

ParseNext ==
    \/ ScanLineComment
    \/ ScanBlockComment
    \/ ScanString
    \/ ScanNormal
    \/ ScanReturn

ParseSpec == ParseInit /\ [][ParseNext]_vars /\ WF_vars(ParseNext)

(***************************************************************************)
(* truncateStatement called on its own, as TestTruncateStatement calls it.  *)
(***************************************************************************)
\* the longest statement that is enumerated in full, and the largest maxLen
MaxStmtLen == 6

MaxTruncLen == 6

StmtChars == {"a", " ", "\n", "\t", "é"}

StmtTexts == UNION {[1..k -> StmtChars] : k \in 0..MaxStmtLen}

TestMultiline ==
    <<"S","E","L","E","C","T","\n"," "," ","i","d",",","\n"," "," ","n","a",
      "m","e","\n","F","R","O","M"," ","u","s","e","r","s">>

\* the calls of TestTruncateStatement "multiline normalized" and "multiline truncated"
TruncSamples == {<<TestMultiline, 50>>, <<TestMultiline, 15>>}

TruncCalls == (StmtTexts \X (4..MaxTruncLen)) \cup TruncSamples

TruncInit ==
    /\ content = <<>>
    /\ i = Start.i
    /\ inString = Start.inString
    /\ inBlockComment = Start.inBlockComment
    /\ inLineComment = Start.inLineComment
    /\ currentStmt = Start.currentStmt
    /\ statements = Start.statements
    /\ peek = Start.peek
    /\ parseErr = "unset"
    /\ pc = "truncate"
    /\ stmtIdx = 0
    /\ execLog = <<>>
    /\ err = NoErr
    /\ \E call \in TruncCalls : tsStmt = call[1] /\ tsMaxLen = call[2]
    /\ tsResult = <<>>
    /\ page = 0
    /\ limit = 0
    /\ totalRows = 0
    /\ totalPages = 0
    /\ links = <<>>

\* the call returns
TruncateReturn ==
    /\ pc = "truncate"
    /\ tsResult' = truncateStatement(tsStmt, tsMaxLen)
    /\ pc' = "truncated"
    /\ UNCHANGED <<tsStmt, tsMaxLen, scanVars, loadVars, jsonVars>>

TruncNext == TruncateReturn

TruncSpec == TruncInit /\ [][TruncNext]_vars

(***************************************************************************)
(* WriteJSON's pagination block and generateHATEOASLinks (package formats). *)
(* A URL is represented by the two parameters buildURL sets, page and       *)
(* links; the base path and the copied parameters are the same in every     *)
(* link of one response.                                                    *)
(***************************************************************************)
MaxPage == 4
MaxLimit == 3
MaxRows == 7

buildURL(targetPage) == [page |-> targetPage, links |-> "true"]

\* links[key] = url
Put(m, key, url) ==
    [k \in (DOMAIN m) \cup {key} |-> IF k = key THEN url ELSE m[k]]

\* make(map[string]string)
EmptyMap == <<>>

\* next is emitted on the last page too
generateHATEOASLinksNextOnLast(pageArg, limitArg, totalPagesArg) ==
    LET l1 == Put(EmptyMap, "self", buildURL(pageArg))
        l2 == Put(l1, "first", buildURL(1))
        l3 == IF totalPagesArg > 0 THEN Put(l2, "last", buildURL(totalPagesArg)) ELSE l2
        l4 == IF pageArg > 1 THEN Put(l3, "prev", buildURL(pageArg - 1)) ELSE l3
    IN  IF pageArg <= totalPagesArg THEN Put(l4, "next", buildURL(pageArg + 1)) ELSE l4

generateHATEOASLinks(pageArg, limitArg, totalPagesArg) ==
    LET l1 == Put(EmptyMap, "self", buildURL(pageArg))
        l2 == Put(l1, "first", buildURL(1))
        l3 == IF totalPagesArg > 0 THEN Put(l2, "last", buildURL(totalPagesArg)) ELSE l2
        l4 == IF pageArg > 1 THEN Put(l3, "prev", buildURL(pageArg - 1)) ELSE l3
    IN  IF pageArg < totalPagesArg THEN Put(l4, "next", buildURL(pageArg + 1)) ELSE l4

\* a request with pagination requested and links enabled
JsonInit ==
    /\ content = <<>>
    /\ i = Start.i
    /\ inString = Start.inString
    /\ inBlockComment = Start.inBlockComment
    /\ inLineComment = Start.inLineComment
    /\ currentStmt = Start.currentStmt
    /\ statements = Start.statements
    /\ peek = Start.peek
    /\ parseErr = "unset"
    /\ pc = "json"
    /\ stmtIdx = 0
    /\ execLog = <<>>
    /\ err = NoErr
    /\ tsStmt = <<>>
    /\ tsMaxLen = 0
    /\ tsResult = <<>>
    /\ page \in 0..MaxPage
    /\ limit \in 0..MaxLimit
    /\ totalRows \in 0..MaxRows
    /\ totalPages = 0
    /\ links = EmptyMap

\* limit > 0: pagination metadata and links are added to the response
WriteJSONPaginated ==
    /\ pc = "json"
    /\ limit > 0
    /\ LET pages == IF totalRows > 0 THEN (totalRows + limit - 1) \div limit ELSE 0
       IN  /\ totalPages' = pages
           /\ links' = generateHATEOASLinks(page, limit, pages)
    /\ pc' = "written"
    /\ UNCHANGED <<page, limit, totalRows, scanVars, loadVars, truncVars>>

\* limit = 0 with pagination requested: neither branch adds anything
WriteJSONPlain ==
    /\ pc = "json"
    /\ ~(limit > 0)
    /\ pc' = "written"
    /\ UNCHANGED <<jsonVars, scanVars, loadVars, truncVars>>

JsonNext == WriteJSONPaginated \/ WriteJSONPlain

JsonSpec == JsonInit /\ [][JsonNext]_vars

(***************************************************************************)
(* Vocabulary of the properties.                                            *)
(***************************************************************************)
Normal == ~inString /\ ~inLineComment /\ ~inBlockComment

\* the loop is about to run an iteration on rune c == Rune
Scanning == pc = "scan" /\ i < Len(content)

Rune == content[i + 1]

\* the rune after Rune exists and is ch
NextIs(ch) == i + 1 < Len(content) /\ content[i + 2] = ch

Last(s) == s[Len(s)]

(***************************************************************************)
(* C1: while the scanner is inside a single-quoted string, a ';' never      *)
(* splits: every ';' scanned in string mode is appended to the accumulator, *)
(* emits no statement and does not reset the accumulator; a statement is    *)
(* emitted only on a ';' scanned in Normal mode or at end of input.         *)
(***************************************************************************)
C1_TerminatorInStringNeverSplits ==
    [][ /\ (Scanning /\ inString /\ Rune = ";")
            => /\ currentStmt' = Append(currentStmt, ";")
               /\ statements' = statements
               /\ inString'
        /\ (statements' # statements)
            => /\ pc = "scan"
               /\ \/ i >= Len(content)
                  \/ Normal /\ Rune = ";"
      ]_vars

\* a ';' has just been scanned in string mode and sits at the end of the accumulator
C1_Witness ==
    /\ pc = "scan"
    /\ inString
    /\ i >= 2
    /\ content[i] = ";"
    /\ Len(currentStmt) >= 2
    /\ Last(currentStmt) = ";"
    /\ statements = <<>>

(***************************************************************************)
(* C2: escaped-quote law.  Inside a string, a quote immediately followed by *)
(* a quote is consumed as one unit (both appended, cursor past both) and    *)
(* the scanner stays in string mode; the string closes only on a quote not  *)
(* immediately followed by a quote, and that closing quote is appended.     *)
(***************************************************************************)
C2_EscapedQuoteLaw ==
    [][ (Scanning /\ inString)
        => /\ (Rune = "'" /\ NextIs("'"))
               => /\ currentStmt' = currentStmt \o <<"'", "'">>
                  /\ i' = i + 2
                  /\ inString'
           /\ (Rune = "'" /\ ~NextIs("'"))
               => /\ currentStmt' = Append(currentStmt, "'")
                  /\ i' = i + 1
                  /\ ~inString' /\ ~inLineComment' /\ ~inBlockComment'
           /\ (~inString') => (Rune = "'" /\ ~NextIs("'"))
      ]_vars

\* an escaped quote has just been consumed inside a string
C2_Witness ==
    /\ pc = "scan"
    /\ inString
    /\ i >= 3
    /\ content[i - 1] = "'" /\ content[i] = "'"
    /\ Len(currentStmt) >= 3
    /\ SubSeq(currentStmt, Len(currentStmt) - 1, Len(currentStmt)) = <<"'", "'">>

(***************************************************************************)
(* C3: comment transparency.  The sequences -- and /* scanned in string     *)
(* mode are appended verbatim and never switch the scanner into a line-     *)
(* comment or block-comment mode; from string mode the only reachable next  *)
(* modes are string and Normal.                                             *)
(***************************************************************************)
C3_CommentTransparency ==
    [][ (Scanning /\ inString)
        => /\ ~inLineComment' /\ ~inBlockComment'
           /\ (Rune \in {"-", "/", "*"})
               => /\ currentStmt' = Append(currentStmt, Rune)
                  /\ i' = i + 1
                  /\ inString'
                  /\ statements' = statements
      ]_vars

\* the two runes of a comment opener have been appended inside a string
C3_Witness ==
    /\ pc = "scan"
    /\ inString
    /\ i >= 3
    /\ <<content[i - 1], content[i]>> \in {<<"-", "-">>, <<"/", "*">>}
    /\ Len(currentStmt) >= 3
    /\ SubSeq(currentStmt, Len(currentStmt) - 1, Len(currentStmt))
           = <<content[i - 1], content[i]>>

(***************************************************************************)
(* C4: Split is total.  For every finite input, unterminated string         *)
(* literal, line comment or block comment included, parseSQL terminates:    *)
(* the cursor strictly advances by one or two positions per iteration and   *)
(* never passes the end, no iteration reads a rune past the end of input,   *)
(* the loop is never stuck, and the call returns with a nil error.          *)
(***************************************************************************)
C4_SplitTotal ==
    /\ <>(pc = "parsed" /\ parseErr = "nil")
    /\ [](pc = "scan" => ENABLED ParseNext)
    /\ [](pc = "scan" => peek < Len(content) /\ i <= Len(content))
    /\ [][ pc = "scan"
           => \/ /\ pc' = "scan"
                 /\ i' \in {i + 1, i + 2}
                 /\ i' <= Len(content)
                 /\ peek' \in {i, i + 1}
              \/ /\ pc' = "parsed"
                 /\ i = Len(content)
                 /\ parseErr' = "nil"
         ]_vars

\* parseSQL has returned nil although a block comment was still open at the end
C4_Witness ==
    /\ pc = "parsed"
    /\ parseErr = "nil"
    /\ inBlockComment
    /\ content # <<>>
    /\ Last(content) = "*"

(***************************************************************************)
(* C5: every statement Split emits is non-empty and has no leading or       *)
(* trailing whitespace; an input that is empty or contains only whitespace, *)
(* comments and terminators yields an empty sequence.                       *)
(***************************************************************************)
\* position after the line comment whose text starts at k: its newline, or the end
LineCommentEnd(t, k) ==
    IF \E j \in k..Len(t) : t[j] = "\n"
    THEN CHOOSE j \in k..Len(t) : t[j] = "\n" /\ \A h \in k..(j - 1) : t[h] # "\n"
    ELSE Len(t) + 1

\* position after the block comment whose text starts at k: after its */, or the end
BlockCommentEnd(t, k) ==
    LET Closes(j) == t[j] = "*" /\ t[j + 1] = "/" IN
    IF \E j \in k..(Len(t) - 1) : Closes(j)
    THEN 2 + CHOOSE j \in k..(Len(t) - 1) : Closes(j) /\ \A h \in k..(j - 1) : ~Closes(h)
    ELSE Len(t) + 1

\* t from position k on holds only whitespace, comments and terminators
RECURSIVE BlankFrom(_, _)
BlankFrom(t, k) ==
    IF k > Len(t) THEN TRUE
    ELSE IF IsSpace(t[k]) \/ t[k] = ";" THEN BlankFrom(t, k + 1)
    ELSE IF k < Len(t) /\ t[k] = "-" /\ t[k + 1] = "-"
    THEN BlankFrom(t, LineCommentEnd(t, k + 2))
    ELSE IF k < Len(t) /\ t[k] = "/" /\ t[k + 1] = "*"
    THEN BlankFrom(t, BlockCommentEnd(t, k + 2))
    ELSE FALSE

C5_StatementsTrimmedNonEmpty ==
    /\ \A k \in 1..Len(statements) :
          /\ statements[k] # <<>>
          /\ ~IsSpace(statements[k][1])
          /\ ~IsSpace(Last(statements[k]))
    /\ (pc \in {"parsed", "exec", "done"} /\ BlankFrom(content, 1)) => statements = <<>>

\* a statement surrounded by whitespace was emitted trimmed, after an empty one was dropped
C5_Witness ==
    /\ pc = "parsed"
    /\ content = <<";", " ", "a", "\n">>
    /\ statements = << <<"a">> >>

(***************************************************************************)
(* C6: execution of an init file follows Split's output order exactly, each *)
(* statement is executed at most once, and once one statement's execution   *)
(* fails no later statement is ever executed.                               *)
(***************************************************************************)
C6_ExecutionOrder ==
    /\ [](LET split == parseSQL(content) IN
          /\ Len(execLog) <= Len(split)
          /\ \A k \in 1..Len(execLog) :
                /\ execLog[k].stmt = split[k]
                /\ k < Len(execLog) => execLog[k].ok)
    /\ [][ (execLog # <<>> /\ ~Last(execLog).ok) => execLog' = execLog ]_vars

\* the second of three statements failed and the third was not executed
C6_Witness ==
    /\ pc = "done"
    /\ Len(statements) = 3
    /\ Len(execLog) = 2
    /\ execLog[1].ok
    /\ ~execLog[2].ok

(***************************************************************************)
(* C7: loadInitFile returns nil only when the file was read and every       *)
(* statement Split produced executed successfully (none executed when there *)
(* are none); when statement k is the first to fail, the returned error     *)
(* carries the 1-based index k, the text of that statement normalized to at *)
(* most 50 characters, and wraps the executor's error.                      *)
(***************************************************************************)
FirstFailure == CHOOSE k \in 1..Len(execLog) : ~execLog[k].ok

C7_WholeFileFails ==
    pc = "done" =>
       /\ err.kind = "nil"
           => /\ parseErr = "nil"
              /\ Len(execLog) = Len(statements)
              /\ \A k \in 1..Len(statements) :
                    execLog[k] = [stmt |-> statements[k], ok |-> TRUE]
       /\ (\E k \in 1..Len(execLog) : ~execLog[k].ok)
           => /\ err.kind = "exec"
              /\ err.index = FirstFailure
              /\ \A k \in 1..(err.index - 1) : execLog[k].ok
              /\ err.text = truncateStatement(statements[err.index], StmtErrLen)
              /\ Len(err.text) <= StmtErrLen
              /\ \A b \in 1..Len(err.text) : err.text[b][1] # "\n"
              /\ err.cause = "execErr"
       /\ err.kind = "exec" => \E k \in 1..Len(execLog) : ~execLog[k].ok
       /\ (parseErr = "nil" /\ statements = <<>>) => (err.kind = "nil" /\ execLog = <<>>)

\* a failing statement longer than 50 characters is reported truncated
C7_Witness ==
    /\ pc = "done"
    /\ err.kind = "exec"
    /\ err.index = 1
    /\ Len(statements[1]) > StmtErrLen
    /\ Len(err.text) = StmtErrLen
    /\ SubSeq(err.text, StmtErrLen - 2, StmtErrLen) = Utf8(<<".", ".", ".">>)

(***************************************************************************)
(* C8: line-comment masking.  From -- scanned in Normal mode until the next *)
(* newline every character (';', a quote and /* included) is discarded,     *)
(* emits no statement and starts no string or block comment; the            *)
(* terminating newline itself is appended to the accumulator and the        *)
(* scanner returns to Normal; if input ends first the comment simply ends.  *)
(***************************************************************************)
C8_LineCommentMasking ==
    [][ /\ (Scanning /\ Normal /\ Rune = "-" /\ NextIs("-"))
            => /\ inLineComment' /\ ~inString' /\ ~inBlockComment'
               /\ i' = i + 2
               /\ currentStmt' = currentStmt /\ statements' = statements
        /\ (Scanning /\ inLineComment /\ Rune # "\n")
            => /\ inLineComment' /\ ~inString' /\ ~inBlockComment'
               /\ i' = i + 1
               /\ currentStmt' = currentStmt /\ statements' = statements
        /\ (Scanning /\ inLineComment /\ Rune = "\n")
            => /\ ~inLineComment' /\ ~inString' /\ ~inBlockComment'
               /\ i' = i + 1
               /\ currentStmt' = Append(currentStmt, "\n") /\ statements' = statements
        /\ (pc = "scan" /\ i >= Len(content) /\ inLineComment)
            => /\ pc' = "parsed" /\ parseErr' = "nil"
               /\ currentStmt' = currentStmt
      ]_vars

\* a line comment holding a ';' has ended at its newline, which alone was appended
C8_Witness ==
    /\ pc = "scan"
    /\ Normal
    /\ i >= 4
    /\ SubSeq(content, i - 3, i) = <<"-", "-", ";", "\n">>
    /\ currentStmt = <<"\n">>
    /\ statements = <<>>

(***************************************************************************)
(* C9: block-comment excision.  Scanning a complete block comment (from /*  *)
(* in Normal mode through the first following star-slash) leaves the        *)
(* accumulator and the output unchanged: no character of the comment is     *)
(* appended, no replacement space is inserted, ';' and quotes inside it     *)
(* have no effect; the scanner is then back in Normal mode.                 *)
(***************************************************************************)
C9_BlockCommentExcision ==
    [][ /\ (Scanning /\ Normal /\ Rune = "/" /\ NextIs("*"))
            => /\ inBlockComment' /\ ~inString' /\ ~inLineComment'
               /\ i' = i + 2
               /\ currentStmt' = currentStmt /\ statements' = statements
        /\ (Scanning /\ inBlockComment)
            => /\ currentStmt' = currentStmt /\ statements' = statements
               /\ ~inString' /\ ~inLineComment'
               /\ IF Rune = "*" /\ NextIs("/")
                  THEN ~inBlockComment' /\ i' = i + 2
                  ELSE inBlockComment' /\ i' = i + 1
      ]_vars

\* the comment of "SELECT /* comment */ 1;" has just been closed
C9_Witness ==
    /\ pc = "scan"
    /\ content = TestBlockMiddle
    /\ i = 20
    /\ Normal
    /\ currentStmt = SubSeq(content, 1, 7)
    /\ statements = <<>>

(***************************************************************************)
(* C10: the trailing terminator is optional.  When the scan reaches end of  *)
(* input in Normal mode the remaining accumulator is trimmed and, if        *)
(* non-empty, appended as the final statement; hence for every text t whose *)
(* scan ends in Normal mode, Split(t) = Split(t followed by ';').           *)
(***************************************************************************)
C10_TrailingTerminatorOptional ==
    /\ [][ (pc = "scan" /\ i >= Len(content) /\ Normal)
           => LET rest == TrimSpace(currentStmt) IN
              /\ pc' = "parsed"
              /\ statements' = IF rest # <<>> THEN Append(statements, rest)
                                              ELSE statements
         ]_vars
    /\ []((pc = "parsed" /\ Normal) => statements = parseSQL(Append(content, ";")))

\* a last statement without terminator, with whitespace after it, was emitted trimmed
C10_Witness ==
    /\ pc = "parsed"
    /\ Normal
    /\ Len(statements) = 2
    /\ IsSpace(Last(content))
    /\ Last(currentStmt) = Last(content)
    /\ statements[2] = TrimSpace(currentStmt)

(***************************************************************************)
(* C11: for every text t that contains no ';', no comment opener (neither  *)
(* -- nor slash-star) and no single quote, Split(t) is the one-element      *)
(* sequence [trim(t)], or the empty sequence when trim(t) is empty.         *)
(***************************************************************************)
\* t has no terminator, no comment opener and no quote
PlainText(t) ==
    /\ \A k \in 1..Len(t) : t[k] \notin {";", "'"}
    /\ \A k \in 1..(Len(t) - 1) :
          <<t[k], t[k + 1]>> \notin {<<"-", "-">>, <<"/", "*">>}

\* the positions of t that hold a non-space rune
Inked(t) == {k \in 1..Len(t) : ~IsSpace(t[k])}

\* t from its first to its last non-space rune
Trimmed(t) ==
    LET a == CHOOSE k \in Inked(t) : \A h \in Inked(t) : k <= h
        b == CHOOSE k \in Inked(t) : \A h \in Inked(t) : h <= k
    IN  [k \in 1..(b - a + 1) |-> t[a + k - 1]]

C11_PlainTextIsOneStatement ==
    (pc = "parsed" /\ PlainText(content))
    => statements = IF Inked(content) = {} THEN <<>> ELSE << Trimmed(content) >>

\* a plain text with lone '-' and '/' and whitespace around came out as one statement
C11_Witness ==
    /\ pc = "parsed"
    /\ content = <<" ", "-", "/", "\n">>
    /\ statements = << <<"-", "/">> >>

(***************************************************************************)
(* C12: for every input in which no terminator is suppressed by string or   *)
(* comment context (every ';' is scanned in Normal mode), the number of     *)
(* statements Split returns equals the number of ';' in the input.          *)
(* This fails on "a" (one statement, no terminator) and on ";" (no          *)
(* statement, one terminator).  What holds: the two numbers are equal when, *)
(* in addition, every terminator ends a non-empty statement and only        *)
(* whitespace and comments follow the last terminator.                      *)
(***************************************************************************)
\* the number of ';' in t
Terminators(t) == Cardinality({k \in 1..Len(t) : t[k] = ";"})

\* s is in one of the three non-Normal modes
Masked(s) == s.inString \/ s.inLineComment \/ s.inBlockComment

\* one turn of the loop on p.s, counted in p.count when it starts from a state
\* that satisfies Hit
TallyStep(Hit(_), runes, p) ==
    IF p.s.i < Len(runes)
    THEN [s |-> ScanRune(runes, p.s),
          count |-> IF Hit(p.s) THEN p.count + 1 ELSE p.count]
    ELSE p

TallyStep4(Hit(_), runes, p) ==
    TallyStep(Hit, runes, TallyStep(Hit, runes,
        TallyStep(Hit, runes, TallyStep(Hit, runes, p))))

TallyStep16(Hit(_), runes, p) ==
    TallyStep4(Hit, runes, TallyStep4(Hit, runes,
        TallyStep4(Hit, runes, TallyStep4(Hit, runes, p))))

RECURSIVE Tally(_, _, _)
Tally(Hit(_), runes, p) ==
    IF p.s.i < Len(runes) THEN Tally(Hit, runes, TallyStep16(Hit, runes, p)) ELSE p

\* the number of iterations of the scan of runes that start from a state satisfying Hit
CountSteps(Hit(_), runes) == Tally(Hit, runes, [s |-> Start, count |-> 0]).count

\* the number of ';' the scan of runes meets outside Normal mode
Suppressed(runes) ==
    LET Hit(s) == runes[s.i + 1] = ";" /\ Masked(s)
    IN  CountSteps(Hit, runes)

\* the number of ';' met in Normal mode while the accumulator is blank
EmptyTerminators(runes) ==
    LET Hit(s) == /\ runes[s.i + 1] = ";"
                  /\ ~Masked(s)
                  /\ \A k \in 1..Len(s.currentStmt) : IsSpace(s.currentStmt[k])
    IN  CountSteps(Hit, runes)

\* the claim as stated
C12_CountEqualsTerminators ==
    (pc = "parsed" /\ Suppressed(content) = 0)
    => Len(statements) = Terminators(content)

\* the claim as amended
C12_CountEqualsClosingTerminators ==
    (/\ pc = "parsed"
     /\ Suppressed(content) = 0
     /\ EmptyTerminators(content) = 0
     /\ \A k \in 1..Len(currentStmt) : IsSpace(currentStmt[k]))
    => Len(statements) = Terminators(content)

\* two terminators, each closing a non-empty statement, gave two statements
C12_Witness ==
    /\ pc = "parsed"
    /\ content = <<"a", ";", "a", ";">>
    /\ Len(statements) = 2

(***************************************************************************)
(* C13: order and content preservation.  Split emits statements in their    *)
(* order of appearance, and the characters of the emitted statements,       *)
(* concatenated in output order, form a subsequence of the input's          *)
(* characters: no character is invented, duplicated or reordered, and none  *)
(* appears in two statements because the accumulator is reset on every      *)
(* emission.                                                                *)
(***************************************************************************)
\* the statements concatenated in output order
Flatten(ss) == Join(ss, <<>>)

\* one step of the leftmost embedding of a into b: p[1] runes of a are matched
\* within the first p[2] runes of b
EmbedStep(a, b, p) ==
    IF p[1] >= Len(a) \/ p[2] >= Len(b) THEN p
    ELSE IF a[p[1] + 1] = b[p[2] + 1] THEN <<p[1] + 1, p[2] + 1>>
    ELSE <<p[1], p[2] + 1>>

EmbedStep4(a, b, p) == EmbedStep(a, b, EmbedStep(a, b, EmbedStep(a, b, EmbedStep(a, b, p))))

EmbedStep16(a, b, p) == EmbedStep4(a, b, EmbedStep4(a, b, EmbedStep4(a, b, EmbedStep4(a, b, p))))

RECURSIVE Embed(_, _, _)
Embed(a, b, p) ==
    IF p[1] >= Len(a) \/ p[2] >= Len(b) THEN p
    ELSE Embed(a, b, EmbedStep16(a, b, p))

\* a is b with some runes left out
IsSubsequence(a, b) == Embed(a, b, <<0, 0>>)[1] = Len(a)

C13_OrderAndContentPreserved ==
    /\ [](pc = "scan"
          => IsSubsequence(Flatten(statements) \o currentStmt, SubSeq(content, 1, i)))
    /\ [](pc # "scan" => IsSubsequence(Flatten(statements), content))
    /\ [][ /\ Len(statements') >= Len(statements)
           /\ SubSeq(statements', 1, Len(statements)) = statements
           /\ (statements' # statements /\ pc' = "scan") => currentStmt' = <<>>
         ]_vars

\* two statements came out of "a;-a" in order, each 'a' in one of them only
C13_Witness ==
    /\ pc = "parsed"
    /\ content = <<"a", ";", "-", "a">>
    /\ statements = << <<"a">>, <<"-", "a">> >>

(***************************************************************************)
(* C14: lexical-mode mutual exclusion.  At every step of the scan at most   *)
(* one of inString, inLineComment, inBlockComment is true; a flag is set    *)
(* only from a state where all three are false, so a comment never begins   *)
(* inside a string and a string never begins inside a comment.              *)
(***************************************************************************)
C14_ModesMutuallyExclusive ==
    /\ [](/\ ~(inString /\ inLineComment)
          /\ ~(inString /\ inBlockComment)
          /\ ~(inLineComment /\ inBlockComment))
    /\ [][ /\ (~inString /\ inString') => Normal
           /\ (~inLineComment /\ inLineComment') => Normal
           /\ (~inBlockComment /\ inBlockComment') => Normal
         ]_vars

\* a quote and a comment opener were scanned inside a block comment, which is still the mode
C14_Witness ==
    /\ pc = "scan"
    /\ i = 4
    /\ SubSeq(content, 1, 4) = <<"/", "*", "'", "-">>
    /\ inBlockComment /\ ~inString /\ ~inLineComment

(***************************************************************************)
(* C18: the end-of-input flush does not depend on the lexical mode.  When   *)
(* input ends inside an unterminated string literal, line comment or block  *)
(* comment, the text accumulated so far (the characters of the unterminated *)
(* string included, those of the comment excluded) is still trimmed and, if *)
(* non-empty, emitted as the final statement.                               *)
(***************************************************************************)
C18_FlushInEveryMode ==
    /\ [][ (pc = "scan" /\ i >= Len(content))
           => /\ pc' = "parsed"
              /\ parseErr' = "nil"
              /\ \/ /\ \A k \in 1..Len(currentStmt) : IsSpace(currentStmt[k])
                    /\ statements' = statements
                 \/ /\ \E k \in 1..Len(currentStmt) : ~IsSpace(currentStmt[k])
                    /\ statements' = Append(statements, Trimmed(currentStmt))
         ]_vars
    /\ []((pc = "parsed" /\ ~Normal /\ Inked(currentStmt) # {})
          => (statements # <<>> /\ Last(statements) = Trimmed(currentStmt)))

\* the text before an unterminated block comment was emitted at end of input
C18_Witness ==
    /\ pc = "parsed"
    /\ content = <<"a", " ", "/", "*">>
    /\ inBlockComment
    /\ statements = << <<"a">> >>

(***************************************************************************)
(* C19: re-splitting is stable.  For every input t and every statement s    *)
(* in Split(t), Split(s) is exactly the one-element sequence [s].           *)
(* This fails when a block comment is taken out from between two runes that *)
(* then form a comment opener: "-/**/-" gives the statement "--", which     *)
(* splits into nothing.  It holds for every input without block comment.    *)
(***************************************************************************)
\* the scan of runes is at some point inside a block comment
EntersBlockComment(runes) ==
    LET Hit(s) == s.inBlockComment IN
    \/ CountSteps(Hit, runes) > 0
    \/ ScanFrom(runes, Start).inBlockComment

EncodingAt(b, j) ==
    LET r == b[j][1] IN
    /\ j + Utf8Len(r) - 1 <= Len(b)
    /\ \A k \in 1..Utf8Len(r) : b[j + k - 1] = <<r, k>>

RECURSIVE RunesFrom(_, _)
RunesFrom(b, j) ==
    IF j > Len(b) THEN <<>>
    ELSE IF EncodingAt(b, j) THEN <<b[j][1]>> \o RunesFrom(b, j + Utf8Len(b[j][1]))
    ELSE <<"U+FFFD">> \o RunesFrom(b, j + 1)

\* the characters of the string with bytes b
Characters(b) == RunesFrom(b, 1)

\* the positions of s that survive the collapse of whitespace: the non-space runes
\* and the first rune of every whitespace run that stands between two of them
Kept(s) ==
    {k \in 1..Len(s) :
        \/ ~IsSpace(s[k])
        \/ /\ k > 1 /\ ~IsSpace(s[k - 1])
           /\ \E h \in (k + 1)..Len(s) : ~IsSpace(s[h])}

\* s with every whitespace run collapsed to one space and no whitespace at the ends
Collapsed(s) ==
    [j \in 1..Cardinality(Kept(s)) |->
        LET k == CHOOSE k \in Kept(s) : Cardinality({h \in Kept(s) : h <= k}) = j
        IN  IF IsSpace(s[k]) THEN " " ELSE s[k]]

Ellipsis == <<".", ".", ".">>

(***************************************************************************)
(* C15: for every statement s and every maxLen >= 4, Normalize(s, maxLen)   *)
(* returns a string of length <= maxLen; if the whitespace-collapsed length *)
(* of s exceeds maxLen the result is the first maxLen-3 characters of the   *)
(* collapsed text followed by "..." and has length exactly maxLen.          *)
(***************************************************************************)
C15_LengthBounded ==
    (pc = "truncated" /\ tsMaxLen >= 4)
    => LET text == Collapsed(tsStmt)
           res  == Characters(tsResult)
       IN  /\ Len(res) <= tsMaxLen
           /\ Len(text) > tsMaxLen
               => /\ res = SubSeq(text, 1, tsMaxLen - 3) \o Ellipsis
                  /\ Len(res) = tsMaxLen

(***************************************************************************)
(* C16: Normalize produces a single-line rendering: every run of whitespace *)
(* is collapsed to one space and leading and trailing whitespace is         *)
(* removed, so the result has no newline, no tab, no two consecutive spaces *)
(* and no leading space; when the collapsed text has length <= maxLen it is *)
(* returned unchanged, with the same non-whitespace tokens as the input.    *)
(***************************************************************************)
C16_SingleLine ==
    (pc = "truncated" /\ tsMaxLen >= 4)
    => LET text == Collapsed(tsStmt)
           res  == Characters(tsResult)
       IN  /\ \A k \in 1..Len(res) : res[k] \notin {"\n", "\t"}
           /\ \A k \in 1..(Len(res) - 1) : ~(res[k] = " " /\ res[k + 1] = " ")
           /\ res # <<>> => res[1] # " "
           /\ Len(text) <= tsMaxLen
               => /\ res = text
                  /\ Fields(res) = Fields(tsStmt)

(***************************************************************************)
(* C17: Normalize's truncation never splits a multi-byte character: the cut *)
(* at maxLen-3 falls on a character boundary, and length is measured in     *)
(* logical characters (code points).                                        *)
(***************************************************************************)
\* every byte of b belongs to the whole encoding of a rune
WellFormed(b) ==
    \A j \in 1..Len(b) : j - b[j][2] + 1 >= 1 /\ EncodingAt(b, j - b[j][2] + 1)

C17_NoCharacterSplit ==
    (pc = "truncated" /\ tsMaxLen >= 4)
    => /\ WellFormed(tsResult)
       /\ (tsResult # Utf8(Collapsed(tsStmt))) <=> (Len(Collapsed(tsStmt)) > tsMaxLen)

(***************************************************************************)
(* C20: pagination links.  For every page, limit and totalPages,            *)
(* generateHATEOASLinks always emits self (targeting page) and first        *)
(* (targeting 1), emits prev (targeting page-1) iff page > 1, next          *)
(* (targeting page+1) iff page < totalPages, and last (targeting            *)
(* totalPages) iff totalPages > 0, where totalPages is the ceiling of       *)
(* totalRows/limit (0 when totalRows is 0).                                 *)
(***************************************************************************)
\* n is the least number of pages of size per that hold rows rows
IsCeiling(n, rows, per) ==
    /\ n \in Nat
    /\ n * per >= rows
    /\ \A m \in 0..(n - 1) : m * per < rows

Emits(key, target) == key \in DOMAIN links /\ links[key].page = target

C20_PaginationLinks ==
    (pc = "written" /\ limit > 0)
    => /\ IsCeiling(totalPages, totalRows, limit)
       /\ DOMAIN links \subseteq {"self", "first", "prev", "next", "last"}
       /\ Emits("self", page)
       /\ Emits("first", 1)
       /\ ("prev" \in DOMAIN links) <=> (page > 1)
       /\ ("prev" \in DOMAIN links) => Emits("prev", page - 1)
       /\ ("next" \in DOMAIN links) <=> (page < totalPages)
       /\ ("next" \in DOMAIN links) => Emits("next", page + 1)
       /\ ("last" \in DOMAIN links) <=> (totalPages > 0)
       /\ ("last" \in DOMAIN links) => Emits("last", totalPages)

\* a middle page of a result whose last page is not full: all five links
C20_Witness ==
    /\ pc = "written"
    /\ limit > 1
    /\ totalRows % limit # 0
    /\ 1 < page /\ page < totalPages
    /\ DOMAIN links = {"self", "first", "prev", "next", "last"}
====
